---- MODULE Spec2Model ----
(***************************************************************************)
(* Model of the heatmap view's data path:                                  *)
(*   raw Bases entries -> extractValue / processData (src/src/data.ts)     *)
(*   -> HeatmapView.render (stats overrides, empty states)                 *)
(*   -> getCellState (src/src/renderer.ts)                                 *)
(*   -> calculateIntensityNumeric / Boolean (src/src/colorUtils.ts).       *)
(*                                                                         *)
(* Numbers are integers.  An intensity is the exact fraction num/den that  *)
(* the code's division (value - min) / (max - min) denotes; den = 0 would  *)
(* be a division by zero.  A value that can be null is a record            *)
(* [null, num].                                                            *)
(***************************************************************************)
EXTENDS Integers, Sequences, FiniteSets, TLC

VARIABLES
    queryData,      \* HeatmapView.data: the query result, or null before it loads
    config,         \* what HeatmapView.getConfig() returns
    processedData,  \* HeatmapView.processedData
    shown,          \* what the view's container shows after render
    cells,          \* the CellState renderHeatmap computed for each date
    input,          \* the `entries` argument of a direct call of processData
    output,         \* what that call returned
    call,           \* the arguments of direct calls of calculateIntensityNumeric
    result          \* what those calls returned

vars == <<queryData, config, processedData, shown, cells, input, output, call, result>>

----------------------------------------------------------------------------
(* Bounds of the model *)

\* longest sequence of raw entries handed to processData
MaxRecords == 3
\* longest query result handed to a view
MaxViewRecords == 2
\* largest number a property, an override or an argument carries
MaxNumber == 3

----------------------------------------------------------------------------
(* Values *)

Null == [null |-> TRUE, num |-> 0]
Some(n) == [null |-> FALSE, num |-> n]

\* numbers a NumberValue can carry: negative, zero, one and larger
Numbers == -1 .. MaxNumber

\* `let min = Infinity` / `let max = -Infinity`: beyond every number of the model
Infinity == MaxNumber + 1
NegInfinity == -Infinity

MathMin(a, b) == IF a <= b THEN a ELSE b
MathMax(a, b) == IF a >= b THEN a ELSE b

\* what extractDate returns: an ISO date string, or nothing (falsy)
NoDate == ""
Dates == {"2024-01-01", "2024-01-02"}

\* StringValue contents of the model
Strings == {"hello", "Yes", "2"}

\* parseFloat on the model's strings: "2" parses, the others give NaN
ParseFloatIsNaN(s) == s # "2"
ParseFloat(s) == IF s = "2" THEN 2 ELSE 0

\* String.prototype.toLowerCase on the model's strings
ToLowerCase(s) == IF s = "Yes" THEN "yes" ELSE s

\* the Obsidian Value objects entry.getValue can return
NullValue == [k |-> "null", b |-> FALSE, n |-> 0, s |-> ""]
BooleanValue(b) == [k |-> "boolean", b |-> b, n |-> 0, s |-> ""]
NumberValue(n) == [k |-> "number", b |-> FALSE, n |-> n, s |-> ""]
StringValue(s) == [k |-> "string", b |-> FALSE, n |-> 0, s |-> s]
DateValue == [k |-> "date", b |-> TRUE, n |-> 0, s |-> "2024-01-01"]

\* the Values extractValue turns into each (value, type) pair it can return
Primitives ==
    {NullValue}
        \cup {BooleanValue(b) : b \in BOOLEAN}
        \cup {NumberValue(n) : n \in Numbers}

Values == Primitives \cup {DateValue} \cup {StringValue(s) : s \in Strings}

\* raw entries: the date extractDate resolves for each and the Value of its property
BasesEntries(V) == [date : Dates \cup {NoDate}, raw : V]

----------------------------------------------------------------------------
(* data.ts: extractValue *)

ExtractValue(v) ==
    IF v.k = "null"
    THEN [value |-> Null, displayValue |-> "value: not set", type |-> "unsupported"]
    ELSE IF v.k = "boolean"
    THEN [value |-> Some(IF v.b THEN 1 ELSE 0),
          displayValue |-> IF v.b THEN "Yes" ELSE "No", type |-> "boolean"]
    ELSE IF v.k = "number"
    THEN [value |-> Some(v.n), displayValue |-> ToString(v.n), type |-> "number"]
    ELSE IF v.k = "string"
    THEN IF ~ParseFloatIsNaN(v.s)
         THEN [value |-> Some(ParseFloat(v.s)), displayValue |-> v.s, type |-> "number"]
         ELSE IF ToLowerCase(v.s) \in {"true", "yes"}
         THEN [value |-> Some(1), displayValue |-> "Yes", type |-> "boolean"]
         ELSE IF ToLowerCase(v.s) \in {"false", "no"}
         THEN [value |-> Some(0), displayValue |-> "No", type |-> "boolean"]
         ELSE [value |-> Null, displayValue |-> v.s, type |-> "unsupported"]
    ELSE [value |-> Some(IF v.b THEN 1 ELSE 0), displayValue |-> v.s, type |-> "boolean"]

----------------------------------------------------------------------------
(* data.ts: processData *)

EmptyMap == [d \in {} |-> Null]

MapSet(m, key, e) == [d \in (DOMAIN m) \cup {key} |-> IF d = key THEN e ELSE m[d]]

\* TracksNumeric without the `value !== 1` test: a numeric 1 would count
TracksNumericNotZero(type, value) ==
    type = "number" /\ ~value.null /\ value.num # 0

\* line 196: a numeric value that is not just a boolean encoding
TracksNumeric(type, value) ==
    type = "number" /\ ~value.null /\ value.num # 0 /\ value.num # 1

\* UpdatesStats without the `value > 0` test: every non-null value would count
UpdatesStatsNonNull(value) == ~value.null

\* line 201: the values that update min, max and count
UpdatesStats(value) == ~value.null /\ value.num > 0

\* ReplacesExisting with >= for >: on equal values the later entry would win
ReplacesExistingOrEqual(existing, value) ==
    ~value.null /\ (existing.value.null \/ value.num >= existing.value.num)

\* ReplacesExisting without the comparison: the last non-null value would win
ReplacesExistingNonNull(existing, value) == ~value.null

\* line 211: an incoming entry replaces the stored one of the same date
ReplacesExisting(existing, value) ==
    ~value.null /\ (existing.value.null \/ value.num > existing.value.num)

\* the locals of processData before its loop (lines 181-185)
InitialLocals ==
    [entries |-> EmptyMap, min |-> Infinity, max |-> NegInfinity,
     count |-> 0, hasNumeric |-> FALSE]

\* one iteration of the loop (lines 187-217); file is the entry's note
ProcessEntry(acc, entry, file) ==
    IF entry.date = NoDate
    THEN acc
    ELSE LET x == ExtractValue(entry.raw)
             e == [date |-> entry.date, value |-> x.value, note |-> file,
                   displayValue |-> x.displayValue]
             stats == UpdatesStats(x.value)
         IN  [entries |->
                 IF entry.date \in DOMAIN acc.entries
                 THEN IF ReplacesExisting(acc.entries[entry.date], x.value)
                      THEN MapSet(acc.entries, entry.date, e)
                      ELSE acc.entries
                 ELSE MapSet(acc.entries, entry.date, e),
              min |-> IF stats THEN MathMin(acc.min, x.value.num) ELSE acc.min,
              max |-> IF stats THEN MathMax(acc.max, x.value.num) ELSE acc.max,
              count |-> IF stats THEN acc.count + 1 ELSE acc.count,
              hasNumeric |-> acc.hasNumeric \/ TracksNumeric(x.type, x.value)]

RECURSIVE ProcessLoop(_, _)
\* the locals after the first n entries went through the loop
ProcessLoop(entries, n) ==
    IF n = 0
    THEN InitialLocals
    ELSE ProcessEntry(ProcessLoop(entries, n - 1), entries[n], n)

\* HandleEdgeCases without the single-value reset of lines 222-225
HandleEdgeCasesNoReset(acc) ==
    [min |-> IF acc.min = Infinity THEN 0 ELSE acc.min,
     max |-> IF acc.max = NegInfinity THEN 1 ELSE acc.max,
     count |-> acc.count, hasNumeric |-> acc.hasNumeric]

\* lines 219-225: the edge cases
HandleEdgeCases(acc) ==
    LET min1 == IF acc.min = Infinity THEN 0 ELSE acc.min
        max1 == IF acc.max = NegInfinity THEN 1 ELSE acc.max
        min2 == IF min1 = max1 /\ min1 > 0 THEN 0 ELSE min1
    IN  [min |-> min2, max |-> max1, count |-> acc.count, hasNumeric |-> acc.hasNumeric]

ProcessData(entries) ==
    LET acc == ProcessLoop(entries, Len(entries))
    IN  [entries |-> acc.entries, stats |-> HandleEdgeCases(acc)]

----------------------------------------------------------------------------
(* colorUtils.ts: intensities, as exact fractions num/den *)

Zero == [num |-> 0, den |-> 1]
One == [num |-> 1, den |-> 1]

\* calculateIntensityNumeric without its two clamps (lines 202-203)
CalculateIntensityUnclamped(value, min, max) ==
    IF max = min THEN One ELSE [num |-> value - min, den |-> max - min]

\* calculateIntensityNumeric without the max === min test of line 201
CalculateIntensityNoEqualTest(value, min, max) ==
    IF value <= min THEN Zero
    ELSE IF value >= max THEN One
    ELSE [num |-> value - min, den |-> max - min]

CalculateIntensityNumeric(value, min, max) ==
    IF max = min THEN One
    ELSE IF value <= min THEN Zero
    ELSE IF value >= max THEN One
    ELSE [num |-> value - min, den |-> max - min]

CalculateIntensityBoolean(value) == IF value THEN One ELSE Zero

----------------------------------------------------------------------------
(* renderer.ts: getCellState *)

\* getCellState that also shows a value of 0 as the Zero state
GetCellStateZeroAsNull(date, entries, stats) ==
    IF date \notin DOMAIN entries
    THEN [type |-> "empty", note |-> 0, intensity |-> Zero]
    ELSE LET entry == entries[date]
         IN  IF entry.value.null \/ entry.value.num = 0
             THEN [type |-> "zero", note |-> entry.note, intensity |-> Zero]
             ELSE [type |-> "filled", note |-> entry.note,
                   intensity |->
                      IF stats.hasNumeric
                      THEN CalculateIntensityNumeric(entry.value.num, stats.min, stats.max)
                      ELSE CalculateIntensityBoolean(entry.value.num > 0)]

GetCellState(date, entries, stats) ==
    IF date \notin DOMAIN entries
    THEN [type |-> "empty", note |-> 0, intensity |-> Zero]
    ELSE LET entry == entries[date]
         IN  IF entry.value.null
             THEN [type |-> "zero", note |-> entry.note, intensity |-> Zero]
             ELSE [type |-> "filled", note |-> entry.note,
                   intensity |->
                      IF stats.hasNumeric
                      THEN CalculateIntensityNumeric(entry.value.num, stats.min, stats.max)
                      ELSE CalculateIntensityBoolean(entry.value.num > 0)]

----------------------------------------------------------------------------
(* data.ts: detectValueType *)

\* one iteration of the loop (lines 252-293); returned = the early return of line 286
DetectEntry(acc, entry) ==
    IF acc.returned \/ entry.date = NoDate \/ entry.raw.k = "null"
    THEN acc
    ELSE LET v == entry.raw
             seen == [acc EXCEPT !.seenValidEntry = TRUE]
         IN  IF v.k = "boolean"
             THEN [seen EXCEPT !.seenBoolean = TRUE]
             ELSE IF v.k = "number"
             THEN IF v.n # 0 /\ v.n # 1
                  THEN [seen EXCEPT !.seenNumber = TRUE]
                  ELSE [seen EXCEPT !.seenBoolean = TRUE]
             ELSE IF v.k = "string"
             THEN IF ~ParseFloatIsNaN(v.s)
                  THEN IF ParseFloat(v.s) # 0 /\ ParseFloat(v.s) # 1
                       THEN [seen EXCEPT !.seenNumber = TRUE]
                       ELSE [seen EXCEPT !.seenBoolean = TRUE]
                  ELSE IF ToLowerCase(v.s) \in {"true", "false", "yes", "no"}
                       THEN [seen EXCEPT !.seenBoolean = TRUE]
                       ELSE [seen EXCEPT !.returned = TRUE]
             ELSE [seen EXCEPT !.seenBoolean = TRUE]

RECURSIVE DetectLoop(_, _)
DetectLoop(entries, n) ==
    IF n = 0
    THEN [seenBoolean |-> FALSE, seenNumber |-> FALSE, seenValidEntry |-> FALSE,
          returned |-> FALSE]
    ELSE DetectEntry(DetectLoop(entries, n - 1), entries[n])

DetectValueType(entries) ==
    LET acc == DetectLoop(entries, Len(entries))
    IN  IF acc.returned THEN "unsupported"
        ELSE IF ~acc.seenValidEntry THEN "unsupported"
        ELSE IF acc.seenNumber THEN "number"
        ELSE IF acc.seenBoolean THEN "boolean"
        ELSE "unsupported"

----------------------------------------------------------------------------
(* HeatmapView *)

NullData == [null |-> TRUE]

\* numbers typed into the minValue / maxValue options
OverrideNumbers == {0, 2}
Overrides == {Null} \cup {Some(n) : n \in OverrideNumbers}

Configs ==
    [valueProperty : {"value"}, minValue : Overrides, maxValue : Overrides]
        \cup {[valueProperty |-> "", minValue |-> Null, maxValue |-> Null]}

\* lines 176-182 of render: the configured overrides replace the computed stats
OverrideStats(stats, viewConfig) ==
    [stats EXCEPT
        !.min = IF ~viewConfig.minValue.null THEN viewConfig.minValue.num ELSE @,
        !.max = IF ~viewConfig.maxValue.null THEN viewConfig.maxValue.num ELSE @]

NoCells == [d \in {} |-> Zero]

\* renderHeatmap: one cell per date of the range (here: the dates of the model)
RenderCells(pd) == [d \in Dates |-> GetCellState(d, pd.entries, pd.stats)]

\* onDataUpdated -> render
OnDataUpdated ==
    /\ shown = "unrendered"
    /\ IF config.valueProperty = ""
       THEN /\ shown' = "Configure value property"
            /\ UNCHANGED <<processedData, cells>>
       ELSE IF queryData = NullData
       THEN /\ shown' = ""
            /\ UNCHANGED <<processedData, cells>>
       ELSE IF Len(queryData.data) = 0
       THEN /\ shown' = "No data to display"
            /\ UNCHANGED <<processedData, cells>>
       ELSE IF DetectValueType(queryData.data) = "unsupported"
       THEN /\ shown' = "Unsupported property type"
            /\ UNCHANGED <<processedData, cells>>
       ELSE LET pd == ProcessData(queryData.data)
                pd2 == [pd EXCEPT !.stats = OverrideStats(pd.stats, config)]
            IN  /\ processedData' = pd2
                /\ IF Cardinality(DOMAIN pd2.entries) = 0
                   THEN /\ shown' = "No dated notes found"
                        /\ cells' = cells
                   ELSE /\ shown' = "heatmap"
                        /\ cells' = RenderCells(pd2)
    /\ UNCHANGED <<queryData, config, input, output, call, result>>

Init ==
    /\ \/ queryData = NullData
       \/ \E n \in 0 .. MaxViewRecords :
             \E s \in [1 .. n -> BasesEntries(Values)] : queryData = [data |-> s]
    /\ config \in Configs
    /\ processedData = NullData
    /\ shown = "unrendered"
    /\ cells = NoCells
    /\ input = <<>>
    /\ output = NullData
    /\ call = NullData
    /\ result = NullData

Next == OnDataUpdated

Spec == Init /\ [][Next]_vars

----------------------------------------------------------------------------
(* processData called directly on any sequence of entries *)

InitProcess ==
    /\ \E n \in 0 .. MaxRecords : input \in [1 .. n -> BasesEntries(Primitives)]
    /\ output = NullData
    /\ queryData = NullData
    /\ config = [valueProperty |-> "", minValue |-> Null, maxValue |-> Null]
    /\ processedData = NullData
    /\ shown = "unrendered"
    /\ cells = NoCells
    /\ call = NullData
    /\ result = NullData

ProcessDataCall ==
    /\ output = NullData
    /\ output' = ProcessData(input)
    /\ UNCHANGED <<queryData, config, processedData, shown, cells, input, call, result>>

NextProcess == ProcessDataCall

SpecProcess == InitProcess /\ [][NextProcess]_vars

----------------------------------------------------------------------------
(* calculateIntensityNumeric called directly: two values against one min, max *)

Arguments == -1 .. MaxNumber

InitIntensity ==
    /\ call \in [value : Arguments, other : Arguments, min : Arguments, max : Arguments]
    /\ result = NullData
    /\ input = <<>>
    /\ output = NullData
    /\ queryData = NullData
    /\ config = [valueProperty |-> "", minValue |-> Null, maxValue |-> Null]
    /\ processedData = NullData
    /\ shown = "unrendered"
    /\ cells = NoCells

CalculateIntensityCall ==
    /\ result = NullData
    /\ result' = [value |-> CalculateIntensityNumeric(call.value, call.min, call.max),
                  other |-> CalculateIntensityNumeric(call.other, call.min, call.max)]
    /\ UNCHANGED <<queryData, config, processedData, shown, cells, input, output, call>>

NextIntensity == CalculateIntensityCall

SpecIntensity == InitIntensity /\ [][NextIntensity]_vars

----------------------------------------------------------------------------
(* Helpers of the properties *)

SetMin(S) == CHOOSE x \in S : \A y \in S : x <= y
SetMax(S) == CHOOSE x \in S : \A y \in S : x >= y

\* indices of the entries of a sequence that carry the date d
WithDate(entries, d) == {i \in 1 .. Len(entries) : entries[i].date = d}

\* indices of the entries with a resolvable date
Dated(entries) == {i \in 1 .. Len(entries) : entries[i].date # NoDate}

\* the number a raw Value stands for, as a set: empty when it stands for none
NumberOf(v) ==
    IF v.k = "boolean" THEN {IF v.b THEN 1 ELSE 0}
    ELSE IF v.k = "number" THEN {v.n}
    ELSE IF v.k = "string"
    THEN IF v.s = "2" THEN {2} ELSE IF v.s = "Yes" THEN {1} ELSE {}
    ELSE IF v.k = "date" THEN {1}
    ELSE {}

\* the non-null values carried by the entries at the indices I
ValuesAt(entries, I) == UNION {NumberOf(entries[i].raw) : i \in I}

----------------------------------------------------------------------------
(* C1: duplicate dates *)

\* C1: processData keeps exactly one entry per distinct resolved date; its value
\* is the greatest non-null value among the records of that date, null only if
\* all of them are null; the record kept is the earliest one carrying that
\* value, and in every iteration the incoming record replaces the stored one
\* only when its value is non-null and the stored value is null or smaller.
C1_DuplicateDates ==
    output # NullData =>
        /\ DOMAIN output.entries = {input[i].date : i \in Dated(input)}
        /\ \A d \in DOMAIN output.entries :
              LET I == WithDate(input, d)
                  V == ValuesAt(input, I)
                  e == output.entries[d]
              IN  /\ e.date = d
                  /\ e.value.null <=> V = {}
                  /\ V # {} => e.value.num = SetMax(V)
                  /\ e.note \in I
                  /\ NumberOf(input[e.note].raw) = (IF V = {} THEN {} ELSE {SetMax(V)})
                  /\ \A i \in I :
                        NumberOf(input[i].raw) = NumberOf(input[e.note].raw)
                            => e.note <= i
        /\ \A n \in 1 .. Len(input) :
              LET before == ProcessLoop(input, n - 1).entries
                  after == ProcessLoop(input, n).entries
                  d == input[n].date
                  v == NumberOf(input[n].raw)
              IN  d \in DOMAIN before =>
                     IF v # {} /\ (before[d].value.null
                                     \/ before[d].value.num < SetMax(v))
                     THEN after[d].note = n
                     ELSE after = before

\* three records of one date: null, then 2, then 2 again; the second is kept
C1_Witness ==
    /\ output # NullData
    /\ Len(input) = 3
    /\ \A i \in 1 .. 3 : input[i].date = "2024-01-01"
    /\ NumberOf(input[1].raw) = {}
    /\ input[2].raw = NumberValue(2)
    /\ input[3].raw = NumberValue(2)
    /\ output.entries["2024-01-01"].note = 2
    /\ output.entries["2024-01-01"].displayValue = "2"

----------------------------------------------------------------------------
(* C2 - C5: the stats *)

\* C2: the stats that reach the renderer satisfy min <= max, for every sequence
\* of raw records and every view configuration, minValue / maxValue overrides
\* included.
C2_MinLeMaxAtRenderer ==
    shown = "heatmap" => processedData.stats.min <= processedData.stats.max

\* C3: stats.count equals the number of entries of the date -> entry map whose
\* value is non-null (zero and negative values counted, a date counted once).
C3_CountIsNonNullEntries ==
    output # NullData =>
        output.stats.count =
            Cardinality({d \in DOMAIN output.entries : ~output.entries[d].value.null})

\* the non-null values of the dated records
NonNullValues(entries) == ValuesAt(entries, Dated(entries))

\* the strictly positive ones among them
PositiveValues(entries) == {v \in NonNullValues(entries) : v > 0}

\* C4 as stated: before the final normalization min and max are the smallest
\* and the largest non-null value of the dated records, zero and negative
\* values included.
C4_MinMaxOverNonNull ==
    output # NullData =>
        LET acc == ProcessLoop(input, Len(input))
            V == NonNullValues(input)
        IN  V # {} => acc.min = SetMin(V) /\ acc.max = SetMax(V)

\* C4 amended: before the final normalization min and max are the smallest and
\* the largest strictly positive non-null value of the dated records; null,
\* zero and negative values never contribute, and with no positive value min
\* and max stay at their initial Infinity / -Infinity.  The returned max is the
\* accumulated one, and so is the returned min when it differs from max.
C4_MinMaxOverPositive ==
    output # NullData =>
        LET acc == ProcessLoop(input, Len(input))
            P == PositiveValues(input)
        IN  /\ P # {} => acc.min = SetMin(P) /\ acc.max = SetMax(P)
            /\ P = {} => acc.min = Infinity /\ acc.max = NegInfinity
            /\ P # {} => output.stats.max = SetMax(P)
            /\ (P # {} /\ SetMin(P) # SetMax(P)) => output.stats.min = SetMin(P)

\* dated records carrying null, 0, a negative and two distinct positive values
C4_Witness ==
    /\ output # NullData
    /\ {0, 2, 3} \subseteq NonNullValues(input)
    /\ output.stats.min = 2
    /\ output.stats.max = 3

\* C5: the final normalization: no contributing value gives min = 0, max = 1,
\* count = 0 (in particular for empty input, no dated record, only null values);
\* contributing values all equal to one X > 0 give min = 0, max = X; otherwise
\* min and max are returned as accumulated.
C5_FinalNormalization ==
    output # NullData =>
        LET acc == ProcessLoop(input, Len(input))
            P == PositiveValues(input)
            st == output.stats
        IN  /\ P = {} => st.min = 0 /\ st.max = 1 /\ st.count = 0
            /\ (Len(input) = 0 \/ Dated(input) = {} \/ NonNullValues(input) = {})
                  => P = {}
            /\ \A X \in P : P = {X} => st.min = 0 /\ st.max = X
            /\ Cardinality(P) > 1
                  => /\ st.min = acc.min /\ st.max = acc.max
                     /\ st.min = SetMin(P) /\ st.max = SetMax(P)

\* a dataset whose contributing values are all the same 3, recorded twice
C5_Witness ==
    /\ output # NullData
    /\ PositiveValues(input) = {3}
    /\ Cardinality(Dated(input)) = 3
    /\ output.stats = [min |-> 0, max |-> 3, count |-> 2, hasNumeric |-> TRUE]

----------------------------------------------------------------------------
(* C6: a single distinct positive value *)

\* the view rendered a numeric dataset with automatic min and max whose only
\* distinct positive value is X
SinglePositive(X) ==
    /\ shown = "heatmap"
    /\ config.minValue.null /\ config.maxValue.null
    /\ processedData.stats.hasNumeric
    /\ PositiveValues(queryData.data) = {X}

\* the dates whose cell holds the value v
CellsHolding(v) ==
    {d \in DOMAIN processedData.entries : processedData.entries[d].value = Some(v)}

\* C6 as stated: for a numeric dataset with exactly one distinct positive value
\* X, the cell holding X renders at an intensity strictly between 0 and 1.
C6_SingleValuePartial ==
    \A X \in 1 .. Infinity :
        SinglePositive(X) =>
            \A d \in CellsHolding(X) :
                /\ 0 < cells[d].intensity.num
                /\ cells[d].intensity.num < cells[d].intensity.den

\* C6 amended: for such a dataset the stats are min = 0 and max = X and the cell
\* holding X renders at maximal intensity, exactly 1; what the forced min = 0
\* changes is that every cell holding a value <= 0 renders at intensity 0.
C6_SingleValueMaximal ==
    \A X \in 1 .. Infinity :
        SinglePositive(X) =>
            /\ processedData.stats.min = 0 /\ processedData.stats.max = X
            /\ \A d \in CellsHolding(X) :
                  /\ cells[d].type = "filled"
                  /\ cells[d].intensity.num = cells[d].intensity.den
            /\ \A d \in DOMAIN processedData.entries :
                  LET v == processedData.entries[d].value
                  IN  (~v.null /\ v.num <= 0) => cells[d].intensity.num = 0

\* one note with value 3 and one with value 0: the cells render at 1 and at 0
C6_Witness ==
    /\ SinglePositive(3)
    /\ CellsHolding(3) = {"2024-01-01"}
    /\ CellsHolding(0) = {"2024-01-02"}
    /\ cells["2024-01-01"].intensity = One
    /\ cells["2024-01-02"].intensity = Zero

----------------------------------------------------------------------------
(* C7: hasNumeric *)

\* C7: stats.hasNumeric is true iff some dated record of kind number carries a
\* value other than 0 and 1; booleans and numeric 0 / 1 leave it false, and
\* records without a resolvable date never influence it.
C7_HasNumeric ==
    output # NullData =>
        (output.stats.hasNumeric <=>
            \E i \in Dated(input) :
                input[i].raw.k = "number" /\ input[i].raw.n \notin {0, 1})

\* numeric 0 and 1, a boolean, and an undated 3: hasNumeric stays false
C7_Witness ==
    /\ output # NullData
    /\ Len(input) = 3
    /\ input[1] = [date |-> "2024-01-01", raw |-> NumberValue(1)]
    /\ input[2] = [date |-> "2024-01-02", raw |-> NumberValue(0)]
    /\ input[3] = [date |-> NoDate, raw |-> NumberValue(3)]
    /\ ~output.stats.hasNumeric

----------------------------------------------------------------------------
(* C8, C9: calculateIntensityNumeric *)

\* a fraction with a non-zero denominator that lies in [0, 1]
InUnitInterval(r) == r.den > 0 /\ 0 <= r.num /\ r.num <= r.den

\* r1 <= r2 for fractions with positive denominators
FracLe(r1, r2) == r1.num * r2.den <= r2.num * r1.den

\* C8: calculateIntensityNumeric returns a value in [0,1] and never divides by
\* zero, also when min > max; when min < max it is monotonically non-decreasing
\* in the value, 0 at min, 1 at max, and (v - min)/(max - min), strictly between
\* 0 and 1, for min < v < max.
C8_IntensityRange ==
    result # NullData =>
        /\ InUnitInterval(result.value)
        /\ InUnitInterval(result.other)
        /\ call.min < call.max =>
              /\ call.value <= call.other => FracLe(result.value, result.other)
              /\ call.value = call.min => result.value.num = 0
              /\ call.value = call.max => result.value.num = result.value.den
              /\ (call.min < call.value /\ call.value < call.max) =>
                    /\ result.value.num * (call.max - call.min)
                           = (call.value - call.min) * result.value.den
                    /\ 0 < result.value.num
                    /\ result.value.num < result.value.den

\* min = 0 < value = 1 < other = 2 < max = 3: the results are 1/3 and 2/3
C8_Witness ==
    /\ result # NullData
    /\ call = [value |-> 1, other |-> 2, min |-> 0, max |-> 3]
    /\ result.value = [num |-> 1, den |-> 3]
    /\ result.other = [num |-> 2, den |-> 3]

\* C9: calculateIntensityNumeric returns exactly 1 whenever max equals min, for
\* every value below, equal to or above it, min = max = 0 included.
C9_EqualMinMax ==
    (result # NullData /\ call.min = call.max) =>
        /\ result.value.den # 0 /\ result.value.num = result.value.den
        /\ result.other.den # 0 /\ result.other.num = result.other.den

\* min = max = 0 with a value below and a value above
C9_Witness ==
    /\ result # NullData
    /\ call = [value |-> -1, other |-> 1, min |-> 0, max |-> 0]
    /\ result.value = One
    /\ result.other = One

----------------------------------------------------------------------------
(* C10: getCellState *)

C11_PositiveIsColored ==
    (shown = "heatmap" /\ config.minValue.null /\ config.maxValue.null) =>
        \A d \in DOMAIN processedData.entries :
            LET e == processedData.entries[d]
            IN  (~e.value.null /\ e.value.num > 0) => cells[d].intensity.num > 0

\* ---------------------------------------------------------------------------
\* Calendar dates (dateUtils.ts).  A JavaScript Date at local midnight is the
\* number of whole days since 1970-01-01, taken as a timezone-less calendar
\* day; its getters compute the civil fields from that number.

IsLeapYear(y) == (y % 4 = 0 /\ y % 100 # 0) \/ y % 400 = 0

\* the days of a year that lie before its month m (0 = January .. 12 = the
\* January after)
DaysBeforeMonth(y, m) ==
    <<0, 31, 59, 90, 120, 151, 181, 212, 243, 273, 304, 334, 365>>[m + 1]
      + (IF m > 1 /\ IsLeapYear(y) THEN 1 ELSE 0)

DaysInMonth(y, m) == DaysBeforeMonth(y, m + 1) - DaysBeforeMonth(y, m)

LeapYearsThrough(y) == (y \div 4) - (y \div 100) + (y \div 400)

DaysBeforeYear(y) == 365 * (y - 1970) + LeapYearsThrough(y - 1) - LeapYearsThrough(1969)

\* new Date(year, monthIndex, day): fields out of range roll over into the
\* neighbouring months and years
NewDate(year, monthIndex, day) ==
    LET y == year + (monthIndex \div 12)
        m == monthIndex % 12
    IN  DaysBeforeYear(y) + DaysBeforeMonth(y, m) + day - 1

\* the civil fields of every day of the years decoded
Civil ==
    [t \in DaysBeforeYear(2019) .. (DaysBeforeYear(2050) - 1) |->
        LET y == CHOOSE y \in {1970 + (t \div 366), 1971 + (t \div 366)} :
                     DaysBeforeYear(y) <= t /\ t < DaysBeforeYear(y + 1)
            dayOfYear == t - DaysBeforeYear(y)
            m == CHOOSE m \in 0 .. 11 :
                     DaysBeforeMonth(y, m) <= dayOfYear /\ dayOfYear < DaysBeforeMonth(y, m + 1)
        IN  [year |-> y, month |-> m, date |-> dayOfYear - DaysBeforeMonth(y, m) + 1]]

GetFullYear(t) == Civil[t].year

GetMonth(t) == Civil[t].month

GetDate(t) == Civil[t].date

\* date.getDay(): 0 = Sunday .. 6 = Saturday; 1970-01-01 was a Thursday
GetDay(t) == (t + 4) % 7

\* date.setDate(n) on the date t
SetDate(t, n) == NewDate(GetFullYear(t), GetMonth(t), n)

\* A text that may hold a date.  A text of the shape dddd-dd-dd, possibly
\* surrounded by white space, is held as its three digit groups; any other text
\* is held by what the Date constructor makes of it: a date (legacy formats such
\* as "March 5, 2024") or Invalid Date.
IsoText(ws, yyyy, mm, dd) ==
    [shape |-> "iso", ws |-> ws, yyyy |-> yyyy, mm |-> mm, dd |-> dd, date |-> Null]

LegacyText(t) ==
    [shape |-> "other", ws |-> FALSE, yyyy |-> 0, mm |-> 0, dd |-> 0, date |-> Some(t)]

GarbageText ==
    [shape |-> "other", ws |-> FALSE, yyyy |-> 0, mm |-> 0, dd |-> 0, date |-> Null]

Trim(text) == [text EXCEPT !.ws = FALSE]

\* parseISODateString: the regular expression on the trimmed text, then the
\* Date constructor on the three numbers
ParseISODateString(dateStr) ==
    LET trimmed == Trim(dateStr)
    IN  IF trimmed.shape # "iso" THEN Null
        ELSE Some(NewDate(trimmed.yyyy, trimmed.mm - 1, trimmed.dd))

\* formatDateISO: year, then month + 1 and day padded to two digits
FormatDateISO(date) ==
    IsoText(FALSE, GetFullYear(date), GetMonth(date) + 1, GetDate(date))

\* ---------------------------------------------------------------------------
\* Calls of the date functions, each from a state that holds the arguments.

\* the view takes no part in these calls
ViewIdle ==
    /\ input = <<>>
    /\ output = NullData
    /\ queryData = NullData
    /\ config = [valueProperty |-> "", minValue |-> Null, maxValue |-> Null]
    /\ processedData = NullData
    /\ shown = "unrendered"
    /\ cells = NoCells

\* the digit groups tried reach one past the largest month and day
MaxMonthField == 13
MaxDayField == 32

ParseTexts ==
    {IsoText(ws, y, m, d) :
        ws \in BOOLEAN, y \in {2023, 2024}, m \in 0 .. MaxMonthField, d \in 0 .. MaxDayField}
      \cup {GarbageText, LegacyText(NewDate(2024, 2, 5))}

InitParse ==
    /\ call \in [dateStr : ParseTexts]
    /\ result = NullData
    /\ ViewIdle

ParseISODateStringCall ==
    /\ result = NullData
    /\ result' = ParseISODateString(call.dateStr)
    /\ UNCHANGED <<queryData, config, processedData, shown, cells, input, output, call>>

NextParse == ParseISODateStringCall

SpecParse == InitParse /\ [][NextParse]_vars

\* C19: parseISODateString returns either null or the date whose canonical
\* YYYY-MM-DD form is the trimmed input: it never returns a different date than
\* the one written (2024-02-31 does not become a date in March).
C19_ParseRoundTrip ==
    (result # NullData /\ ~result.null) =>
        FormatDateISO(result.num) = Trim(call.dateStr)

\* ---------------------------------------------------------------------------
\* generateDateRange, one loop iteration at a time

DateRangeStart(start, end) ==
    [dates |-> <<>>, current |-> start, endNormalized |-> end, done |-> FALSE]

DateRangeContinuesStrict(s) == s.current < s.endNormalized

\* the loop condition: current <= endNormalized
DateRangeContinues(s) == s.current <= s.endNormalized

\* the loop body: push the formatted date, then move current one day on
DateRangeBody(s) ==
    [s EXCEPT !.dates = Append(@, FormatDateISO(s.current)),
              !.current = SetDate(@, GetDate(@) + 1)]

RECURSIVE DateRangeLoop(_)
DateRangeLoop(s) ==
    IF DateRangeContinues(s) THEN DateRangeLoop(DateRangeBody(s)) ELSE s

GenerateDateRange(start, end) == DateRangeLoop(DateRangeStart(start, end)).dates

\* the range starts tried lie just before the end of a common February, of a
\* 30-day month, of a year and of a leap February
MaxLeadDays == 2
MaxLoopDays == 5

LoopStarts ==
    {b - k : b \in {NewDate(2023, 2, 1), NewDate(2023, 4, 1),
                    NewDate(2024, 0, 1), NewDate(2024, 2, 1)},
             k \in 0 .. MaxLeadDays}

InitDateRange ==
    /\ call = NullData
    /\ result = NullData
    /\ ViewIdle

GenerateDateRangeEnter ==
    /\ result = NullData
    /\ \E start \in LoopStarts :
         \E end \in (start - 2) .. (start + MaxLoopDays) :
            /\ call' = [start |-> start, end |-> end]
            /\ result' = DateRangeStart(start, end)
    /\ UNCHANGED <<queryData, config, processedData, shown, cells, input, output>>

GenerateDateRangeIterate ==
    /\ result # NullData
    /\ ~result.done
    /\ DateRangeContinues(result)
    /\ result' = DateRangeBody(result)
    /\ UNCHANGED <<queryData, config, processedData, shown, cells, input, output, call>>

GenerateDateRangeReturn ==
    /\ result # NullData
    /\ ~result.done
    /\ ~DateRangeContinues(result)
    /\ result' = [result EXCEPT !.done = TRUE]
    /\ UNCHANGED <<queryData, config, processedData, shown, cells, input, output, call>>

NextDateRange ==
    \/ GenerateDateRangeEnter
    \/ GenerateDateRangeIterate
    \/ GenerateDateRangeReturn

\* the call runs on one thread to completion: a step that is possible is taken
SpecDateRange == InitDateRange /\ [][NextDateRange]_vars /\ WF_vars(NextDateRange)

\* a text in canonical form: no white space, month 1..12, day within the month
IsCanonical(text) ==
    /\ text.shape = "iso"
    /\ ~text.ws
    /\ text.mm \in 1 .. 12
    /\ text.dd \in 1 .. DaysInMonth(text.yyyy, text.mm - 1)

\* the civil date written by a canonical text, as a day number
DayOfText(text) ==
    DaysBeforeYear(text.yyyy) + DaysBeforeMonth(text.yyyy, text.mm - 1) + text.dd - 1

DateRangeReturned == result # NullData /\ result.done

DateRangeCorrect ==
    DateRangeReturned =>
        LET dates == result.dates
        IN  /\ Len(dates) = (IF call.start > call.end THEN 0 ELSE call.end - call.start + 1)
            /\ \A i \in 1 .. Len(dates) :
                  /\ IsCanonical(dates[i])
                  /\ DayOfText(dates[i]) = call.start + i - 1

\* C20: generateDateRange returns the canonical YYYY-MM-DD strings of the days
\* start .. end in ascending order, one per day with no gap and no duplicate
\* (month ends, year ends and leap days included), returns the empty list when
\* start is after end, and its loop terminates for every such pair.
C20_DateRange == [](DateRangeCorrect) /\ <>(DateRangeReturned)

\* 2024-02-28 .. 2024-03-01 returned as three dates, the leap day among them
C20_Witness ==
    /\ DateRangeReturned
    /\ call = [start |-> NewDate(2024, 1, 28), end |-> NewDate(2024, 2, 1)]
    /\ result.dates = <<IsoText(FALSE, 2024, 2, 28), IsoText(FALSE, 2024, 2, 29),
                        IsoText(FALSE, 2024, 3, 1)>>

\* ---------------------------------------------------------------------------
\* The week grid: getDayOfWeek, getWeekNumber, generateMonthLabels and the cell
\* placement of renderHeatmap

GetDayOfWeekSundayOnly(date, weekStart) == GetDay(date)

GetDayOfWeek(date, weekStart) ==
    LET day == GetDay(date)
    IN  IF weekStart = 0 THEN day
        ELSE IF day = 0 THEN 6 ELSE day - 1

GetWeekNumberNoOffset(date, rangeStart, weekStart) == ((date - rangeStart) \div 7) + 1

GetWeekNumber(date, rangeStart, weekStart) ==
    LET diffDays == date - rangeStart
        startDayOfWeek == GetDayOfWeek(rangeStart, weekStart)
    IN  ((diffDays + startDayOfWeek) \div 7) + 1

MonthNames ==
    <<"Jan", "Feb", "Mar", "Apr", "May", "Jun", "Jul", "Aug", "Sep", "Oct", "Nov", "Dec">>

\* first pass of generateMonthLabels: current runs over the days rangeStart ..
\* end, and each adds its month to the set of its week; the map afterwards
CollectMonths(rangeStart, end, weekStart) ==
    LET week == [current \in rangeStart .. end |->
                    GetWeekNumber(current, rangeStart, weekStart)]
    IN  [w \in {week[current] : current \in rangeStart .. end} |->
            {GetMonth(current) : current \in {c \in rangeStart .. end : week[c] = w}}]

PrimaryMonthFirst(monthsInWeek) == CHOOSE m \in monthsInWeek : \A n \in monthsInWeek : m <= n

\* the last element of the months sorted by number
PrimaryMonth(monthsInWeek) == CHOOSE m \in monthsInWeek : \A n \in monthsInWeek : n <= m

StartsNewLabelAlways(primaryMonth, currentMonth) == TRUE

\* the test that opens a new month label
StartsNewLabel(primaryMonth, currentMonth) == primaryMonth # currentMonth

\* second pass: locals.labels is the list, its last element is currentLabel
RECURSIVE LabelLoop(_, _, _, _)
LabelLoop(locals, week, totalWeeks, weekToMonths) ==
    IF week > totalWeeks THEN locals
    ELSE IF week \notin DOMAIN weekToMonths
    THEN LabelLoop(locals, week + 1, totalWeeks, weekToMonths)
    ELSE LET primaryMonth == PrimaryMonth(weekToMonths[week])
             n == Len(locals.labels)
             closed == IF n > 0
                       THEN [locals.labels EXCEPT ![n].endColumn = week]
                       ELSE locals.labels
             label == [name |-> MonthNames[primaryMonth + 1], startColumn |-> week,
                       endColumn |-> totalWeeks + 1]
         IN  IF StartsNewLabel(primaryMonth, locals.currentMonth)
             THEN LabelLoop([labels |-> Append(closed, label), currentMonth |-> primaryMonth],
                            week + 1, totalWeeks, weekToMonths)
             ELSE LabelLoop(locals, week + 1, totalWeeks, weekToMonths)

GenerateMonthLabels(rangeStart, rangeEnd, weekStart) ==
    LET weekToMonths == CollectMonths(rangeStart, rangeEnd, weekStart)
        totalWeeks == GetWeekNumber(rangeEnd, rangeStart, weekStart)
        labels == LabelLoop([labels |-> <<>>, currentMonth |-> -1], 1, totalWeeks,
                            weekToMonths).labels
        n == Len(labels)
    IN  IF n > 0 THEN [labels EXCEPT ![n].endColumn = totalWeeks + 1] ELSE labels

PositionNoSwap(layoutDirection, dayOfWeek, weekNum) ==
    [row |-> dayOfWeek + 1, column |-> weekNum]

\* renderHeatmap's grid position of a cell
Position(layoutDirection, dayOfWeek, weekNum) ==
    [row |-> IF layoutDirection = "vertical" THEN weekNum ELSE dayOfWeek + 1,
     column |-> IF layoutDirection = "vertical" THEN dayOfWeek + 1 ELSE weekNum]

\* the body of renderHeatmap's loop over allDates, for the dates that parse
RenderCell(dateStr, rangeStart, weekStart, layoutDirection) ==
    LET date == ParseISODateString(dateStr).num
        dayOfWeek == GetDayOfWeek(date, weekStart)
        weekNum == GetWeekNumber(date, rangeStart, weekStart)
        at == Position(layoutDirection, dayOfWeek, weekNum)
    IN  [date |-> dateStr, row |-> at.row, column |-> at.column]

RenderHeatmap(dateRange, weekStart, layoutDirection) ==
    LET allDates == GenerateDateRange(dateRange.start, dateRange.end)
        parsing == SelectSeq(allDates, LAMBDA s : ~ParseISODateString(s).null)
    IN  [totalWeeks |-> GetWeekNumber(dateRange.end, dateRange.start, weekStart),
         cells |-> [i \in 1 .. Len(parsing) |->
                       RenderCell(parsing[i], dateRange.start, weekStart, layoutDirection)]]

\* the ranges tried start on one of the days from 2023-11-24 on and cover up to
\* MaxRangeDays further days, so that they cross the ends of November, of the
\* year and of January with every alignment of the week
MaxGridStartOffset == 13
MaxRangeDays == 45

GridStarts == {NewDate(2023, 10, 24) + k : k \in 0 .. MaxGridStartOffset}

InitGrid ==
    /\ \E start \in GridStarts :
         call \in [start : {start}, end : start .. (start + MaxRangeDays),
                   weekStart : {0, 1}, layoutDirection : {"horizontal", "vertical"}]
    /\ result = NullData
    /\ ViewIdle

\* getDayOfWeek and getWeekNumber, called for every date of the range
GetWeekNumberCall ==
    /\ result = NullData
    /\ result' =
          [op |-> "getWeekNumber",
           dayOfWeek |-> [d \in call.start .. call.end |-> GetDayOfWeek(d, call.weekStart)],
           weekNumber |-> [d \in call.start .. call.end |->
                              GetWeekNumber(d, call.start, call.weekStart)]]
    /\ UNCHANGED <<queryData, config, processedData, shown, cells, input, output, call>>

RenderHeatmapCall ==
    /\ result = NullData
    /\ result' =
          LET grid == RenderHeatmap([start |-> call.start, end |-> call.end],
                                    call.weekStart, call.layoutDirection)
          IN  [op |-> "renderHeatmap", totalWeeks |-> grid.totalWeeks, cells |-> grid.cells]
    /\ UNCHANGED <<queryData, config, processedData, shown, cells, input, output, call>>

GenerateMonthLabelsCall ==
    /\ result = NullData
    /\ result' =
          [op |-> "generateMonthLabels",
           labels |-> GenerateMonthLabels(call.start, call.end, call.weekStart)]
    /\ UNCHANGED <<queryData, config, processedData, shown, cells, input, output, call>>

NextGrid ==
    \/ GetWeekNumberCall
    \/ RenderHeatmapCall
    \/ GenerateMonthLabelsCall

SpecGrid == InitGrid /\ [][NextGrid]_vars

Returned(op) == result # NullData /\ result.op = op

\* C14: for weekStart 0 or 1, getDayOfWeek is (native day of week - weekStart
\* + 7) mod 7; getWeekNumber of the range start is 1 and of a date d is
\* floor((days since start + getDayOfWeek(start)) / 7) + 1; between two
\* consecutive dates the week number grows by exactly 1 when the later date's
\* day index is 0 and stays the same otherwise.
C14_WeekIndex ==
    Returned("getWeekNumber") =>
        LET dow == result.dayOfWeek
            wk == result.weekNumber
        IN  /\ \A d \in call.start .. call.end :
                  /\ dow[d] = (GetDay(d) - call.weekStart + 7) % 7
                  /\ wk[d] = ((d - call.start + dow[call.start]) \div 7) + 1
            /\ wk[call.start] = 1
            /\ \A d \in (call.start + 1) .. call.end :
                  wk[d] = wk[d - 1] + (IF dow[d] = 0 THEN 1 ELSE 0)

\* a Monday-first range that starts in mid-week: its first Sunday is still in
\* week 1 with day index 6, the Monday after it opens week 2
C14_Witness ==
    /\ Returned("getWeekNumber")
    /\ call.weekStart = 1
    /\ result.dayOfWeek[call.start] \in 1 .. 5
    /\ \E d \in call.start .. (call.end - 1) :
          /\ GetDay(d) = 0
          /\ result.dayOfWeek[d] = 6 /\ result.weekNumber[d] = 1
          /\ result.dayOfWeek[d + 1] = 0 /\ result.weekNumber[d + 1] = 2

\* C15: renderHeatmap places the cell of a date with day index i (0..6) and
\* week index w (1-based) at row i + 1, column w in the horizontal layout and
\* at row w, column i + 1 in the vertical layout: the same cell, transposed.
C15_Placement ==
    Returned("renderHeatmap") =>
        /\ Len(result.cells) = call.end - call.start + 1
        /\ \A k \in 1 .. Len(result.cells) :
              LET c == result.cells[k]
                  d == call.start + k - 1
                  i == (GetDay(d) - call.weekStart + 7) % 7
                  i0 == (GetDay(call.start) - call.weekStart + 7) % 7
                  w == ((d - call.start + i0) \div 7) + 1
              IN  /\ DayOfText(c.date) = d
                  /\ call.layoutDirection = "horizontal" => c.row = i + 1 /\ c.column = w
                  /\ call.layoutDirection = "vertical" => c.row = w /\ c.column = i + 1
                  /\ i \in 0 .. 6 /\ w \in 1 .. result.totalWeeks

\* a range from Monday 2023-11-27, Monday-first weeks, vertical layout: the
\* Wednesday 2023-11-29 lies at row 1, column 3
C15_Witness ==
    /\ Returned("renderHeatmap")
    /\ call.start = NewDate(2023, 10, 27)
    /\ call.weekStart = 1
    /\ call.layoutDirection = "vertical"
    /\ Len(result.cells) >= 3
    /\ result.cells[3] = [date |-> IsoText(FALSE, 2023, 11, 29), row |-> 1, column |-> 3]

\* the day index of the range start, counted from the first day of the week
StartIndex == (GetDay(call.start) - call.weekStart + 7) % 7

\* the days of the range that fall in week w, and the months seen among them
DaysOfWeek(w) ==
    {d \in call.start .. call.end : ((d - call.start + StartIndex) \div 7) + 1 = w}

MonthsOfWeek(w) == {GetMonth(d) : d \in DaysOfWeek(w)}

TotalWeeks == ((call.end - call.start + StartIndex) \div 7) + 1

\* the name of the span that covers week w
LabelOfWeek(w) ==
    LET k == CHOOSE k \in 1 .. Len(result.labels) :
                 result.labels[k].startColumn <= w /\ w < result.labels[k].endColumn
    IN  result.labels[k].name

\* C16: for every week that contains days of two months, the month whose span
\* covers the week is the chronologically later of the two, also when the week
\* runs over the turn of the year from December into January.
C16_LaterMonthIsPrimary ==
    Returned("generateMonthLabels") =>
        \A w \in 1 .. TotalWeeks :
            Cardinality(MonthsOfWeek(w)) = 2 =>
                LabelOfWeek(w) = MonthNames[GetMonth(SetMax(DaysOfWeek(w))) + 1]

\* the largest month number seen in week w, and the weeks that open a span
LargestMonth(w) == SetMax(MonthsOfWeek(w))

SpanStarts == {1} \cup {w \in 2 .. TotalWeeks : LargestMonth(w) # LargestMonth(w - 1)}

\* C18: the month spans tile the week axis: the first span starts at week 1, a
\* new span starts exactly at each week whose primary month differs from the
\* one of the week before, every span ends (exclusively) where the next one
\* starts, the last one ends at totalWeeks + 1, and no span ends before its
\* start.
C18_SpansTile ==
    Returned("generateMonthLabels") =>
        LET labels == result.labels
            n == Len(labels)
        IN  /\ n >= 1
            /\ labels[1].startColumn = 1
            /\ {labels[k].startColumn : k \in 1 .. n} = SpanStarts
            /\ \A k \in 1 .. (n - 1) :
                  /\ labels[k].startColumn < labels[k + 1].startColumn
                  /\ labels[k].endColumn = labels[k + 1].startColumn
            /\ labels[n].endColumn = TotalWeeks + 1
            /\ \A k \in 1 .. n :
                  /\ labels[k].endColumn >= labels[k].startColumn
                  /\ labels[k].name = MonthNames[LargestMonth(labels[k].startColumn) + 1]

\* a range from November into January: three spans, the middle one closed
\* where the third starts
C18_Witness ==
    /\ Returned("generateMonthLabels")
    /\ Len(result.labels) = 3
    /\ result.labels[1].name = "Nov" /\ result.labels[1].startColumn = 1
    /\ result.labels[2].name = "Dec"
    /\ result.labels[3].name = "Jan"
    /\ result.labels[2].endColumn = result.labels[3].startColumn
    /\ result.labels[2].endColumn - result.labels[2].startColumn >= 4

\* ---------------------------------------------------------------------------
\* generateMonthLabels on ranges made of whole months of one calendar year.
\* The years tried are 2020 .. 2020 + MaxLabelYears: 28 consecutive years hold
\* every weekday of January 1 for common and for leap years.
MaxLabelYears == 27

InitYear ==
    /\ \E year \in 2020 .. (2020 + MaxLabelYears), first \in 0 .. 11, last \in 0 .. 11 :
         /\ first <= last
         /\ call \in [start : {NewDate(year, first, 1)}, end : {NewDate(year, last + 1, 0)},
                      weekStart : {0, 1}, layoutDirection : {"horizontal"}]
    /\ result = NullData
    /\ ViewIdle

NextYear == GenerateMonthLabelsCall

SpecYear == InitYear /\ [][NextYear]_vars

\* C17: for a range from the first day of a month to the last day of a month of
\* the same calendar year, and either weekStart, generateMonthLabels returns
\* exactly one span per month of the range, named by the 3-letter tokens in
\* calendar order (12 spans Jan..Dec for a whole year, 4 spans Jun..Sep for
\* June 1 to September 30).
C17_OneSpanPerMonth ==
    Returned("generateMonthLabels") =>
        LET first == GetMonth(call.start)
            last == GetMonth(call.end)
        IN  /\ Len(result.labels) = last - first + 1
            /\ \A k \in 1 .. Len(result.labels) :
                  result.labels[k].name = MonthNames[first + k]

\* June 1 to September 30 of 2024, Sunday-first: Jun, Jul, Aug, Sep
C17_Witness ==
    /\ Returned("generateMonthLabels")
    /\ call.start = NewDate(2024, 5, 1) /\ call.end = NewDate(2024, 8, 30)
    /\ call.weekStart = 0
    /\ [k \in 1 .. Len(result.labels) |-> result.labels[k].name] = <<"Jun", "Jul", "Aug", "Sep">>

\* ---------------------------------------------------------------------------
\* calculateDateRange.  A Date that may be Invalid Date is Some(day) or Null.

\* a start or end option left empty (null or the empty string)
NullText ==
    [shape |-> "null", ws |-> FALSE, yyyy |-> 0, mm |-> 0, dd |-> 0, date |-> Null]

IsTruthy(text) == text.shape # "null"

\* parseISODateString(text) ?? new Date(text)
ToDate(text) ==
    LET parsed == ParseISODateString(text)
    IN  IF ~parsed.null THEN parsed ELSE text.date

StartOfNextYear(end) == Some(NewDate(GetFullYear(end.num) + 1, 0, 1))

\* new Date(end.getFullYear(), 0, 1)
StartOfYear(end) == Some(NewDate(GetFullYear(end.num), 0, 1))

\* the else branch: the earliest of the entry keys that are dates, or the
\* start of the end's year
AutoDetectStart(entries, end) ==
    LET dates == {ToDate(d).num : d \in {k \in entries : ~ToDate(k).null}}
    IN  IF dates # {}
        THEN Some(CHOOSE t \in dates : \A u \in dates : t <= u)
        ELSE StartOfYear(end)

InvalidStartAutoDetects(entries, end) == AutoDetectStart(entries, end)

\* the start taken when the start option is set but is no date
InvalidStart(entries, end) == StartOfYear(end)

ResolveEnd(endDate, today) ==
    IF IsTruthy(endDate)
    THEN LET end == ToDate(endDate)
         IN  IF end.null THEN Some(today) ELSE end
    ELSE Some(today)

ResolveStart(entries, startDate, end) ==
    IF IsTruthy(startDate)
    THEN LET start == ToDate(startDate)
         IN  IF start.null THEN InvalidStart(entries, end) ELSE start
    ELSE AutoDetectStart(entries, end)

CalculateDateRange(entries, startDate, endDate, today) ==
    LET end == ResolveEnd(endDate, today)
    IN  [start |-> ResolveStart(entries, startDate, end), end |-> end]

MaxKeys == 2

\* the keys of entries: canonical dates, and one key that is no date
KeyTexts ==
    {FormatDateISO(NewDate(2023, 10, 5)), FormatDateISO(NewDate(2024, 1, 10)),
     FormatDateISO(NewDate(2024, 11, 25)), GarbageText}

\* the texts of the start and end options
OptionTexts ==
    {NullText, GarbageText, LegacyText(NewDate(2024, 2, 5)),
     IsoText(FALSE, 2023, 12, 30), IsoText(TRUE, 2024, 3, 10), IsoText(FALSE, 2024, 9, 1),
     IsoText(FALSE, 2024, 2, 31)}

InitRange ==
    /\ call \in [entries : {K \in SUBSET KeyTexts : Cardinality(K) <= MaxKeys},
                 startDate : OptionTexts, endDate : OptionTexts,
                 today : {NewDate(2024, 5, 15), NewDate(2025, 0, 2)}]
    /\ result = NullData
    /\ ViewIdle

CalculateDateRangeCall ==
    /\ result = NullData
    /\ result' = CalculateDateRange(call.entries, call.startDate, call.endDate, call.today)
    /\ UNCHANGED <<queryData, config, processedData, shown, cells, input, output, call>>

NextRange == CalculateDateRangeCall

SpecRange == InitRange /\ [][NextRange]_vars

\* the dates among the keys of the call's entries
KeyDates == {ToDate(k).num : k \in {k \in call.entries : ~ToDate(k).null}}

\* the start of the year of the returned end
YearStart == NewDate(GetFullYear(result.end.num), 0, 1)

\* the start that the entries give: their earliest date, or the year's start
DataStart == IF KeyDates # {} THEN SetMin(KeyDates) ELSE YearStart

\* C12: calculateDateRange takes as start the explicit start when it parses;
\* otherwise, when the explicit start is absent and also when it is present
\* but does not parse, the earliest entry key, or January 1 of the resolved
\* end's year when there is no entry; neither an unparseable start nor an
\* unparseable end raises an error.
C12_StartFallsBackToData ==
    result # NullData =>
        /\ ~result.start.null /\ ~result.end.null
        /\ result.start.num =
              (IF IsTruthy(call.startDate) /\ ~ToDate(call.startDate).null
               THEN ToDate(call.startDate).num
               ELSE DataStart)

\* C12, amended: the start is the date the explicit start parses to; when the
\* start is absent it is the earliest entry key, or January 1 of the resolved
\* end's year when no key is a date; when the start is present but does not
\* parse it is January 1 of the resolved end's year whatever the entries hold.
\* The result always carries two valid dates.
C12_StartResolution ==
    result # NullData =>
        /\ ~result.start.null /\ ~result.end.null
        /\ result.start.num =
              (IF ~IsTruthy(call.startDate) THEN DataStart
               ELSE IF ToDate(call.startDate).null THEN YearStart
               ELSE ToDate(call.startDate).num)

\* an unparseable start with entries from 2023-11-05 on and an end in 2024: the
\* start is 2024-01-01, not the earliest key
C12_Witness ==
    /\ result # NullData
    /\ call.startDate = GarbageText
    /\ FormatDateISO(NewDate(2023, 10, 5)) \in call.entries
    /\ call.endDate = IsoText(FALSE, 2024, 9, 1)
    /\ result.start = Some(NewDate(2024, 0, 1))
    /\ result.end = Some(NewDate(2024, 8, 1))

\* C13: every DateRange returned by calculateDateRange has start <= end,
\* whatever the explicit start and end texts, the entry keys and today's date
\* are (also for an explicit start after the explicit end, and for entries
\* whose earliest date is after the resolved end).
C13_StartLeEnd ==
    result # NullData => result.start.num <= result.end.num

\* the start was neither written by the caller nor found in the entries
StartDefaulted ==
    IF IsTruthy(call.startDate) THEN ToDate(call.startDate).null ELSE KeyDates = {}

\* C13, amended: the resolver does not order or clamp the range.  A start that
\* it defaults to January 1 of the end's year is never after the end; a start
\* taken from the explicit start text or from the earliest entry key is
\* returned as it is, so that start <= end holds exactly when that date is not
\* after the resolved end, and start > end is returned otherwise.
C13_StartLeEndUnlessSupplied ==
    result # NullData =>
        LET supplied == IF IsTruthy(call.startDate)
                        THEN ToDate(call.startDate).num
                        ELSE SetMin(KeyDates)
        IN  /\ StartDefaulted => result.start.num <= result.end.num
            /\ ~StartDefaulted =>
                  /\ result.start.num = supplied
                  /\ result.start.num <= result.end.num <=> supplied <= result.end.num

\* explicit start 2024-09-01 with explicit end 2024-03-10: returned as written,
\* start after end
C13_Witness ==
    /\ result # NullData
    /\ call.startDate = IsoText(FALSE, 2024, 9, 1)
    /\ call.endDate = IsoText(TRUE, 2024, 3, 10)
    /\ result.start = Some(NewDate(2024, 8, 1))
    /\ result.end = Some(NewDate(2024, 2, 10))
    /\ result.start.num > result.end.num

\* C23: a render of a configured view whose query has answered shows 'No data
\* to display' exactly when the query returned no record, and 'No dated notes
\* found' exactly when there are records but none of them has a date; records
\* without any dated one are never reported under another message.
C23_DistinctEmptyStates ==
    (shown # "unrendered" /\ config.valueProperty # "" /\ queryData # NullData) =>
        /\ shown = "No data to display" <=> Len(queryData.data) = 0
        /\ shown = "No dated notes found" <=>
              (Len(queryData.data) > 0 /\ Dated(queryData.data) = {})

\* C26: generateMonthLabels emits a label for every calendar month that has at
\* least one day inside the range, for every range and either weekStart.
C26_EveryMonthLabelled ==
    Returned("generateMonthLabels") =>
        \A d \in call.start .. call.end :
            \E k \in 1 .. Len(result.labels) :
                result.labels[k].name = MonthNames[GetMonth(d) + 1]

\* the coordinates of a cell: its day coordinate and its week coordinate
DayCoordinate(c) == IF call.layoutDirection = "vertical" THEN c.column ELSE c.row

WeekCoordinate(c) == IF call.layoutDirection = "vertical" THEN c.row ELSE c.column

\* C27: for a range with start <= end and either weekStart, renderHeatmap makes
\* exactly one cell per calendar day of the range, no two cells share a (row,
\* column) pair, every day coordinate lies in 1..7 and every week coordinate in
\* 1..totalWeeks, totalWeeks being the week index of the range's end date.
C27_OneCellPerDay ==
    Returned("renderHeatmap") =>
        LET n == Len(result.cells)
        IN  /\ n = call.end - call.start + 1
            /\ {DayOfText(result.cells[k].date) : k \in 1 .. n} = call.start .. call.end
            /\ \A j, k \in 1 .. n :
                  j # k => <<result.cells[j].row, result.cells[j].column>>
                             # <<result.cells[k].row, result.cells[k].column>>
            /\ \A k \in 1 .. n :
                  /\ DayCoordinate(result.cells[k]) \in 1 .. 7
                  /\ WeekCoordinate(result.cells[k]) \in 1 .. result.totalWeeks
            /\ result.totalWeeks = WeekCoordinate(result.cells[n])
            /\ result.totalWeeks = TotalWeeks

\* a vertical grid of 40 days that begins in mid-week and so needs 7 weeks
C27_Witness ==
    /\ Returned("renderHeatmap")
    /\ call.layoutDirection = "vertical"
    /\ Len(result.cells) = 40
    /\ result.cells[1].column > 1
    /\ result.totalWeeks = 7
    /\ result.cells[40].row = 7

\* ---------------------------------------------------------------------------
\* processData called on the same records in another order

MaxOrderRecords == 3

OrderEntries ==
    [date : Dates,
     raw : {NullValue, NumberValue(-1), NumberValue(0), NumberValue(1), NumberValue(2)}]
      \cup {[date |-> NoDate, raw |-> NumberValue(2)]}

\* the records in the order p: the i-th one passed is record p[i]
InOrder(records, p) == [i \in 1 .. Len(records) |-> records[p[i]]]

InitOrder ==
    /\ \E n \in 0 .. MaxOrderRecords : input \in [1 .. n -> OrderEntries]
    /\ output = NullData
    /\ call = NullData
    /\ result = NullData
    /\ queryData = NullData
    /\ config = [valueProperty |-> "", minValue |-> Null, maxValue |-> Null]
    /\ processedData = NullData
    /\ shown = "unrendered"
    /\ cells = NoCells

ProcessDataInOrder ==
    /\ output = NullData
    /\ \E p \in Permutations(1 .. Len(input)) :
          /\ call' = [order |-> p]
          /\ output' = ProcessData(InOrder(input, p))
    /\ UNCHANGED <<queryData, config, processedData, shown, cells, input, result>>

NextOrder == ProcessDataInOrder

SpecOrder == InitOrder /\ [][NextOrder]_vars

\* what a processed dataset plots: the value of every date, and the stats
Plotted(pd) ==
    [values |-> [d \in DOMAIN pd.entries |-> pd.entries[d].value], stats |-> pd.stats]

\* C29: processData plots the same for every order of the same records: the
\* set of dates, the value stored for each date and the stats (min, max,
\* count, hasNumeric) are those of the records in their original order; only
\* the note and display text kept among duplicates of a date may differ.
C29_OrderIndependent ==
    output # NullData => Plotted(output) = Plotted(ProcessData(input))

\* three records of one date with values 1, 2, 1 passed in another order: the
\* date still holds 2, but the note kept is the record's new position
C29_Witness ==
    /\ output # NullData
    /\ Len(input) = 3
    /\ \A i \in 1 .. 3 : input[i].date = "2024-01-01"
    /\ <<input[1].raw, input[2].raw, input[3].raw>>
          = <<NumberValue(1), NumberValue(2), NumberValue(1)>>
    /\ call.order = <<2, 3, 1>>
    /\ output.entries["2024-01-01"].value = Some(2)
    /\ output.entries["2024-01-01"].note = 1
    /\ output.stats = [min |-> 1, max |-> 2, count |-> 3, hasNumeric |-> TRUE]

\* ---------------------------------------------------------------------
\* Colours (src/unnamed/part_001 1147-1320).  A hex colour text is its
\* optional '#' and its hexadecimal digits; a JavaScript number is kept in
\* fixed point with six decimals (Unit stands for 1.0), a coefficient of the
\* source being rounded to its sixth decimal.
\* ---------------------------------------------------------------------
Unit == 1000000

\* The arithmetic is written as functions on the integers, whose arguments
\* are values when the body is evaluated.
\* a * b of two fixed-point numbers, by limbs of three decimals so that no
\* intermediate product leaves the machine integers of the checker
MulFix[a \in Int, b \in Int] ==
    LET ah == a \div 1000
        al == a % 1000
        bh == b \div 1000
        bl == b % 1000
    IN  (ah * bh) + (((ah * bl) + (al * bh)) \div 1000) + ((al * bl) \div Unit)

Cube[x \in Int] == MulFix[MulFix[x, x], x]

Pow5[y \in Int] == MulFix[MulFix[MulFix[y, y], MulFix[y, y]], y]

\* Math.cbrt(v) for v >= 0: the least y of lo .. hi whose cube reaches v
CbrtSearch[v \in Int, lo \in Int, hi \in Int] ==
    IF lo >= hi THEN lo
    ELSE IF Cube[(lo + hi) \div 2] >= v
         THEN CbrtSearch[v, lo, (lo + hi) \div 2]
         ELSE CbrtSearch[v, ((lo + hi) \div 2) + 1, hi]

Cbrt[v \in Int] == CbrtSearch[v, 0, 2 * Unit]

\* v ^ (1/5): the least y whose fifth power reaches v
Root5Search[v \in Int, lo \in Int, hi \in Int] ==
    IF lo >= hi THEN lo
    ELSE IF Pow5[(lo + hi) \div 2] >= v
         THEN Root5Search[v, lo, (lo + hi) \div 2]
         ELSE Root5Search[v, ((lo + hi) \div 2) + 1, hi]

\* Math.pow(x, 2.4) = x^2 * (x^2)^(1/5)
Pow24[x \in Int] == MulFix[MulFix[x, x], Root5Search[MulFix[x, x], 0, 2 * Unit]]

\* Math.pow(c, 1 / 2.4): the least y with y ^ 2.4 >= c (2.0 from c = 5.28 on,
\* far beyond what a channel can show)
InvPow24Search[c \in Int, lo \in Int, hi \in Int] ==
    IF lo >= hi THEN lo
    ELSE IF Pow24[(lo + hi) \div 2] >= c
         THEN InvPow24Search[c, lo, (lo + hi) \div 2]
         ELSE InvPow24Search[c, ((lo + hi) \div 2) + 1, hi]

\* lines 1193-1198
linearToSrgb[c \in Int] ==
    IF c <= 3131 THEN MulFix[c, 12920000]
    ELSE MulFix[1055000, InvPow24Search[c, 0, 2 * Unit]] - 55000

\* lines 1203-1208
srgbToLinear[c \in Int] ==
    IF c <= 40450 THEN (c * 100) \div 1292
    ELSE Pow24[((c + 55000) * 1000) \div 1055]

\* srgbToLinear(n / 255) of the 256 channel values, computed once
ChannelToLinear == [n \in 0 .. 255 |-> srgbToLinear[(n * Unit) \div 255]]

\* the hexadecimal digits of a channel and back (toString(16).padStart(2, '0')
\* and parseInt(.., 16))
ToHex[n \in Int] == << n \div 16, n % 16 >>

ParseHexPair(hi, lo) == (16 * hi) + lo

HexText(hash, r, g, b) == [hash |-> hash, digits |-> ToHex[r] \o ToHex[g] \o ToHex[b]]

\* lines 1179-1181: /^#?[0-9a-f]{6}$/i
isValidHexColor(color) ==
    /\ Len(color.digits) = 6
    /\ \A i \in 1 .. 6 : color.digits[i] \in 0 .. 15

\* lines 1152-1162
hexToRgb(hex) ==
    IF ~isValidHexColor(hex) THEN [r |-> 0, g |-> 0, b |-> 0]
    ELSE [r |-> ParseHexPair(hex.digits[1], hex.digits[2]),
          g |-> ParseHexPair(hex.digits[3], hex.digits[4]),
          b |-> ParseHexPair(hex.digits[5], hex.digits[6])]

\* Math.max(0, Math.min(255, Math.round(n))) of lines 1168-1169; the channels
\* arrive rounded from oklabToRgb
ClampChannel[n \in Int] == IF n < 0 THEN 0 ELSE IF n > 255 THEN 255 ELSE n

\* lines 1167-1173
rgbToHex(r, g, b) == HexText(TRUE, ClampChannel[r], ClampChannel[g], ClampChannel[b])

\* lines 1213-1234
rgbToOklab[r \in Int, g \in Int, b \in Int] ==
    LET lr == ChannelToLinear[r]
        lg == ChannelToLinear[g]
        lb == ChannelToLinear[b]
        l_ == Cbrt[MulFix[412221, lr] + MulFix[536333, lg] + MulFix[51446, lb]]
        m_ == Cbrt[MulFix[211903, lr] + MulFix[680700, lg] + MulFix[107397, lb]]
        s_ == Cbrt[MulFix[88302, lr] + MulFix[281719, lg] + MulFix[629979, lb]]
    IN  [L |-> (MulFix[210454, l_] + MulFix[793618, m_]) - MulFix[4072, s_],
         a |-> (MulFix[1977998, l_] - MulFix[2428592, m_]) + MulFix[450594, s_],
         b |-> (MulFix[25904, l_] + MulFix[782772, m_]) - MulFix[808676, s_]]

\* Math.round(x * 255)
Round255[x \in Int] == ((x * 255) + (Unit \div 2)) \div Unit

\* lines 1250-1259: the three channels from the cubes l, m, s
LmsToRgb[l \in Int, m \in Int, s \in Int] ==
    [r |-> Round255[linearToSrgb[(MulFix[4076742, l] - MulFix[3307712, m])
                                    + MulFix[230970, s]]],
     g |-> Round255[linearToSrgb[(MulFix[2609757, m] - MulFix[1268438, l])
                                    - MulFix[341319, s]]],
     b |-> Round255[linearToSrgb[(MulFix[1707615, s] - MulFix[4196, l])
                                    - MulFix[703419, m]]]]

\* lines 1239-1260
oklabToRgb[L \in Int, a \in Int, b \in Int] ==
    LmsToRgb[Cube[(L + MulFix[396338, a]) + MulFix[215804, b]],
             Cube[(L - MulFix[105561, a]) - MulFix[63854, b]],
             Cube[(L - MulFix[89484, a]) - MulFix[1291486, b]]]

\* lab1 + (lab2 - lab1) * t, t in tenths
Lerp[x1 \in Int, x2 \in Int, t \in Int] == x1 + (((x2 - x1) * t) \div 10)

\* lines 1281-1282: the hex text of the interpolated Oklab colour
OklabToHex[L \in Int, a \in Int, b \in Int] ==
    LET rgb == oklabToRgb[L, a, b] IN rgbToHex(rgb.r, rgb.g, rgb.b)

\* lines 1269-1283; t is given in tenths
interpolateColor(color1, color2, t) ==
    LET rgb1 == hexToRgb(color1)
        rgb2 == hexToRgb(color2)
        lab1 == rgbToOklab[rgb1.r, rgb1.g, rgb1.b]
        lab2 == rgbToOklab[rgb2.r, rgb2.g, rgb2.b]
    IN  OklabToHex[Lerp[lab1.L, lab2.L, t], Lerp[lab1.a, lab2.a, t],
                   Lerp[lab1.b, lab2.b, t]]

\* lines 1289-1296
getRelativeLuminance(hex) ==
    LET rgb == hexToRgb(hex)
    IN  (MulFix[212600, ChannelToLinear[rgb.r]] + MulFix[715200, ChannelToLinear[rgb.g]])
            + MulFix[72200, ChannelToLinear[rgb.b]]

DarkBackground == HexText(TRUE, 22, 27, 34)

LightBackground == HexText(TRUE, 235, 237, 240)

\* lines 1303-1320
adjustColorForTheme(hex, isDark) ==
    LET luminance == getRelativeLuminance(hex)
    IN  IF isDark
        THEN IF luminance > 150000 THEN interpolateColor(hex, DarkBackground, 7) ELSE hex
        ELSE IF luminance < 850000 THEN interpolateColor(hex, LightBackground, 7) ELSE hex

\* ---------------------------------------------------------------------
\* interpolateColor and adjustColorForTheme called on colour texts
\* ---------------------------------------------------------------------
\* t ranges over the tenths from -MaxOvershoot/10 to 1 + MaxOvershoot/10
MaxOvershoot == 5

Factors == (0 - MaxOvershoot) .. (10 + MaxOvershoot)

\* black, white, the two backgrounds, the default green pair and a red
\* written without '#'
ColorTexts ==
    { HexText(TRUE, 0, 0, 0), HexText(TRUE, 255, 255, 255), DarkBackground,
      LightBackground, HexText(TRUE, 57, 211, 83), HexText(TRUE, 33, 110, 57),
      HexText(FALSE, 255, 0, 0) }

\* the call about to be made, with its arguments
InitColor ==
    /\ call \in [op : {"interpolateColor"}, color1 : ColorTexts,
                 color2 : ColorTexts, t : Factors]
                \cup [op : {"adjustColorForTheme"}, hex : ColorTexts,
                      isDark : BOOLEAN]
    /\ result = NullData
    /\ ViewIdle

InterpolateColorCall ==
    /\ call.op = "interpolateColor"
    /\ result = NullData
    /\ result' = [op |-> "interpolateColor",
                  value |-> interpolateColor(call.color1, call.color2, call.t)]
    /\ UNCHANGED <<queryData, config, processedData, shown, cells, input, output, call>>

AdjustColorForThemeCall ==
    /\ call.op = "adjustColorForTheme"
    /\ result = NullData
    /\ result' = [op |-> "adjustColorForTheme",
                  value |-> adjustColorForTheme(call.hex, call.isDark)]
    /\ UNCHANGED <<queryData, config, processedData, shown, cells, input, output, call>>

\* adjustColorForTheme called again on the colour it returned, while that
\* changes the colour
AdjustColorForThemeAgain ==
    /\ call.op = "adjustColorForTheme"
    /\ result # NullData
    /\ result.value # call.hex
    /\ call' = [call EXCEPT !.hex = result.value]
    /\ result' = [op |-> "adjustColorForTheme",
                  value |-> adjustColorForTheme(result.value, call.isDark)]
    /\ UNCHANGED <<queryData, config, processedData, shown, cells, input, output>>

NextColor ==
    \/ InterpolateColorCall
    \/ AdjustColorForThemeCall
    \/ AdjustColorForThemeAgain

SpecColor == InitColor /\ [][NextColor]_vars

\* C21: interpolateColor clamps t to [0, 1]: for t < 0 the result is that of
\* t = 0 and for t > 1 that of t = 1.
C21_ClampsFactor ==
    Returned("interpolateColor") =>
        /\ call.t < 0 => result.value = interpolateColor(call.color1, call.color2, 0)
        /\ call.t > 10 => result.value = interpolateColor(call.color1, call.color2, 10)

\* C22: adjustColorForTheme is idempotent in both themes, and a colour whose
\* luminance is inside the band already (at most 0.15 in dark mode, at least
\* 0.85 in light mode) is returned unchanged.
C22_Idempotent ==
    Returned("adjustColorForTheme") =>
        /\ adjustColorForTheme(result.value, call.isDark) = result.value
        /\ (IF call.isDark THEN getRelativeLuminance(call.hex) <= 150000
                           ELSE getRelativeLuminance(call.hex) >= 850000)
              => result.value = call.hex

\* ---------------------------------------------------------------------
\* Plugin settings (src/src/main.ts 107-118, 196-231, 293-326 and
\* src/unnamed/part_003 99-113).  A text is the sequence of its characters.
\* The variable input holds the data saved on disk and output the memory of
\* the loaded plugin: the array DEFAULT_COLOR_SCHEMES of the module, an array
\* of the plugin's own, and which of the two settings.colorSchemes refers to.
\* ---------------------------------------------------------------------
Hash(r, g, b) == HexText(TRUE, r, g, b)

BuiltIn(id, name, maxColor) ==
    [id |-> id, name |-> name, zeroColor |-> LightBackground,
     maxColor |-> maxColor, isDefault |-> TRUE]

\* part_003 102-108, as the module defines it when it is loaded
BuiltInColorSchemes ==
    << BuiltIn(<<"g","r","e","e","n">>, <<"G","r","e","e","n">>, Hash(57, 211, 83)),
       BuiltIn(<<"p","u","r","p","l","e">>, <<"P","u","r","p","l","e">>, Hash(167, 139, 250)),
       BuiltIn(<<"b","l","u","e">>, <<"B","l","u","e">>, Hash(56, 189, 248)),
       BuiltIn(<<"o","r","a","n","g","e">>, <<"O","r","a","n","g","e">>, Hash(251, 146, 60)),
       BuiltIn(<<"g","r","a","y">>, <<"G","r","a","y">>, Hash(173, 186, 199)) >>

\* String.prototype.toLowerCase, character by character, on the capitals in use
LowerCaseChar(c) ==
    CASE c = "G" -> "g"
      [] c = "P" -> "p"
      [] c = "B" -> "b"
      [] c = "O" -> "o"
      [] OTHER -> c

LowerAlnum ==
    {"a","b","c","d","e","f","g","h","i","j","k","l","m","n","o","p","q","r",
     "s","t","u","v","w","x","y","z","0","1","2","3","4","5","6","7","8","9"}

\* name.trim(): the name without its leading and trailing blanks
RECURSIVE TrimStart(_)
TrimStart(s) == IF s # <<>> /\ Head(s) = " " THEN TrimStart(Tail(s)) ELSE s

RECURSIVE TrimEnd(_)
TrimEnd(s) ==
    IF s # <<>> /\ s[Len(s)] = " " THEN TrimEnd(SubSeq(s, 1, Len(s) - 1)) ELSE s

TrimName(s) == TrimEnd(TrimStart(s))

\* replace(/[^a-z0-9]+/g, '-'): every run of other characters becomes one '-'
RECURSIVE ReplaceRuns(_, _)
ReplaceRuns(s, inRun) ==
    IF s = <<>> THEN <<>>
    ELSE IF Head(s) \in LowerAlnum THEN <<Head(s)>> \o ReplaceRuns(Tail(s), FALSE)
    ELSE IF inRun THEN ReplaceRuns(Tail(s), TRUE)
    ELSE <<"-">> \o ReplaceRuns(Tail(s), TRUE)

\* replace(/^-|-$/g, ''): one '-' less at either end
StripDashes(s) ==
    LET front == IF s # <<>> /\ Head(s) = "-" THEN Tail(s) ELSE s
    IN  IF front # <<>> /\ front[Len(front)] = "-"
        THEN SubSeq(front, 1, Len(front) - 1) ELSE front

\* main.ts 315-320
GenerateId(name) ==
    LET id == StripDashes(ReplaceRuns([i \in 1 .. Len(name) |-> LowerCaseChar(name[i])], FALSE))
    IN  IF id = <<>> THEN <<"s","c","h","e","m","e">> ELSE id

\* main.ts 306-311
NormalizeColor(color) == IF color.hash THEN color ELSE [color EXCEPT !.hash = TRUE]

NotSaved == [saved |-> FALSE]

\* main.ts 293-326, EditSchemeModal.save: the scheme handed to onSave, or
\* nothing when a field is rejected
Save(scheme, isNew) ==
    IF TrimName(scheme.name) = <<>> THEN NotSaved
    ELSE IF ~isValidHexColor(scheme.zeroColor) THEN NotSaved
    ELSE IF ~isValidHexColor(scheme.maxColor) THEN NotSaved
    ELSE [saved |-> TRUE,
          scheme |-> [scheme EXCEPT
                        !.zeroColor = NormalizeColor(scheme.zeroColor),
                        !.maxColor = NormalizeColor(scheme.maxColor),
                        !.id = IF isNew THEN GenerateId(scheme.name) ELSE scheme.id]]

\* the array settings.colorSchemes refers to
ColorSchemes(plugin) ==
    IF plugin.colorSchemes = "own" THEN plugin.own ELSE plugin.DEFAULT_COLOR_SCHEMES

\* a write into the array settings.colorSchemes refers to
Mutate(plugin, list) ==
    IF plugin.colorSchemes = "own" THEN [plugin EXCEPT !.own = list]
    ELSE [plugin EXCEPT !.DEFAULT_COLOR_SCHEMES = list]

\* Array.prototype.findIndex(s => s.id === id), 0 standing for -1
FindIndex(list, id) ==
    IF \E i \in 1 .. Len(list) : list[i].id = id
    THEN CHOOSE i \in 1 .. Len(list) :
            /\ list[i].id = id
            /\ \A j \in 1 .. (i - 1) : list[j].id # id
    ELSE 0

\* Array.prototype.splice(index, 1)
Splice(list, index) == SubSeq(list, 1, index - 1) \o SubSeq(list, index + 1, Len(list))

\* main.ts 116-118: what saveData writes
SaveData(plugin) == [hasColorSchemes |-> TRUE, colorSchemes |-> ColorSchemes(plugin)]

\* main.ts 107-114 on a freshly loaded module
LoadedSettings(loaded) ==
    LET useLoaded == loaded # NullData /\ loaded.hasColorSchemes
                        /\ Len(loaded.colorSchemes) # 0
    IN  [DEFAULT_COLOR_SCHEMES |-> BuiltInColorSchemes,
         own |-> IF useLoaded THEN loaded.colorSchemes ELSE <<>>,
         colorSchemes |-> IF useLoaded THEN "own" ELSE "DEFAULT_COLOR_SCHEMES"]

\* the schemes a settings tab may hold at once
MaxSchemes == 6

\* what the user types into the modal: a name (for a new scheme also one
\* without letters or digits) and a max colour
Names == { <<>>, <<" ">>, <<"G","r","e","e","n"," ","!">> }

NewNames == Names \cup { <<"!">> }

MaxColors == { HexText(FALSE, 255, 0, 0), [hash |-> TRUE, digits |-> <<15, 15, 15>>] }

\* data.json: absent, written by a version without colour schemes, holding
\* an empty list, or holding one custom scheme
SavedData ==
    { NullData,
      [hasColorSchemes |-> FALSE, colorSchemes |-> <<>>],
      [hasColorSchemes |-> TRUE, colorSchemes |-> <<>>],
      [hasColorSchemes |-> TRUE,
       colorSchemes |-> << [id |-> <<"a","-","b">>, name |-> <<"A"," ","b","!">>,
                            zeroColor |-> LightBackground,
                            maxColor |-> Hash(255, 0, 0), isDefault |-> FALSE] >>] }

InitSettings ==
    /\ input \in SavedData
    /\ output = NullData
    /\ call = NullData
    /\ result = NullData
    /\ queryData = NullData
    /\ config = [valueProperty |-> "", minValue |-> Null, maxValue |-> Null]
    /\ processedData = NullData
    /\ shown = "unrendered"
    /\ cells = NoCells

\* onload (main.ts 15-16): the module is evaluated and the settings are loaded
LoadSettings ==
    /\ output' = LoadedSettings(input)
    /\ call' = [op |-> "loadSettings"]
    /\ UNCHANGED <<queryData, config, processedData, shown, cells, input, result>>

\* main.ts 196-208: the modal is filled in and saved
AddScheme ==
    /\ output # NullData
    /\ Len(ColorSchemes(output)) < MaxSchemes
    /\ \E name \in NewNames, maxColor \in MaxColors :
         LET newScheme == [id |-> <<>>, name |-> name, zeroColor |-> LightBackground,
                           maxColor |-> maxColor, isDefault |-> FALSE]
             saved == Save(newScheme, TRUE)
         IN  /\ saved.saved
             /\ output' = Mutate(output, Append(ColorSchemes(output), saved.scheme))
             /\ input' = SaveData(output')
             /\ call' = [op |-> "addScheme"]
    /\ UNCHANGED <<queryData, config, processedData, shown, cells, result>>

\* main.ts 210-218: the pencil of a row, the modal changed and saved
EditScheme ==
    /\ output # NullData
    /\ \E row \in 1 .. Len(ColorSchemes(output)), name \in Names, maxColor \in MaxColors :
         LET scheme == ColorSchemes(output)[row]
             saved == Save([scheme EXCEPT !.name = name, !.maxColor = maxColor], FALSE)
             index == FindIndex(ColorSchemes(output), scheme.id)
         IN  /\ saved.saved
             /\ index # 0
             /\ output' = Mutate(output, [ColorSchemes(output) EXCEPT ![index] = saved.scheme])
             /\ input' = SaveData(output')
             /\ call' = [op |-> "editScheme", hit |-> index = row,
                         last |-> Len(ColorSchemes(output)) = 1]
    /\ UNCHANGED <<queryData, config, processedData, shown, cells, result>>

\* main.ts 220-231: the trash of a row
DeleteScheme ==
    /\ output # NullData
    /\ \E row \in 1 .. Len(ColorSchemes(output)) :
         LET scheme == ColorSchemes(output)[row]
             index == FindIndex(ColorSchemes(output), scheme.id)
             spliced == Mutate(output, Splice(ColorSchemes(output), index))
         IN  /\ index # 0
             /\ output' = IF Len(ColorSchemes(spliced)) = 0
                          THEN [spliced EXCEPT !.colorSchemes = "own",
                                               !.own = spliced.DEFAULT_COLOR_SCHEMES]
                          ELSE spliced
             /\ input' = SaveData(output')
             /\ call' = [op |-> "deleteScheme", hit |-> index = row,
                         last |-> Len(ColorSchemes(output)) = 1]
    /\ UNCHANGED <<queryData, config, processedData, shown, cells, result>>

NextSettings == LoadSettings \/ AddScheme \/ EditScheme \/ DeleteScheme

SpecSettings == InitSettings /\ [][NextSettings]_vars

\* C24: after any sequence of load, add, edit and delete, from a fresh install
\* or from saved data, settings.colorSchemes holds at least one scheme, and
\* deleting the last remaining scheme leaves the five built-in defaults.
C24_NeverEmpty ==
    output # NullData =>
        /\ Len(ColorSchemes(output)) >= 1
        /\ (call.op = "deleteScheme" /\ call.last)
              => ColorSchemes(output) = BuiltInColorSchemes

\* C28: the ids of the schemes in settings.colorSchemes are pairwise distinct
\* after any sequence of add, edit and delete, so that an edit or a delete on
\* a row changes that row's scheme.
C28_DistinctIds ==
    output # NullData =>
        /\ \A i, j \in 1 .. Len(ColorSchemes(output)) :
              ColorSchemes(output)[i].id = ColorSchemes(output)[j].id => i = j
        /\ call.op \in {"editScheme", "deleteScheme"} => call.hit

\* ---------------------------------------------------------------------
\* HeatmapView rendered repeatedly, with the listeners of setupInteractions
\* (src/src/__mocks__/obsidian.ts 109-221, src/src/interactions.ts 14-92).
\* The variable output holds what the view has built: how many heatmap
\* elements were created (heatmap k is the element of the k-th successful
\* render), which of them is in the container (0 for none), the listeners
\* registered on them, and the cleanup function kept in cleanupInteractions
\* (0 for null, k for the one setupInteractions returned for heatmap k).
\* ---------------------------------------------------------------------
MaxHeatmaps == 3

EventTypes == {"click", "mouseover", "keydown"}

\* interactions.ts 34, 52, 81: the three listeners of one heatmap element
AddEventListeners(el) == {[el |-> el, type |-> type] : type \in EventTypes}

\* the view that never removed its listeners
LeaveEventListeners(listeners, el) == listeners

\* interactions.ts 35, 53, 82, 90-92: the cleanup function for element el
RemoveEventListeners(listeners, el) == {l \in listeners : l.el # el}

\* obsidian.ts 118-121
CleanupInteractions(view) ==
    IF view.cleanupInteractions # 0
    THEN [view EXCEPT !.listeners = RemoveEventListeners(@, view.cleanupInteractions),
                      !.cleanupInteractions = 0]
    ELSE view

\* obsidian.ts 124: containerEl.empty()
EmptyContainer(view) == [view EXCEPT !.attached = 0]

\* obsidian.ts 209-220: the new heatmap is appended and its cleanup kept
AppendHeatmap(view) ==
    [view EXCEPT !.heatmaps = view.heatmaps + 1,
                 !.attached = view.heatmaps + 1,
                 !.listeners = view.listeners \cup AddEventListeners(view.heatmaps + 1),
                 !.cleanupInteractions = view.heatmaps + 1]

\* interactions.ts 21-32, 38-50, 56-79: what one handler does for an event
\* whose target is a cell with a note, a cell without one, or no cell
Handler(type, target, key) ==
    IF target = "none" THEN {}
    ELSE IF type = "click"
    THEN IF target = "cell with note" THEN {"openLinkText"} ELSE {}
    ELSE IF type = "mouseover" THEN {"setTooltip"}
    ELSE (IF key = "Enter" /\ target = "cell with note" THEN {"openLinkText"} ELSE {})
            \cup (IF key = "ArrowUp" THEN {"navigateToAdjacentCell"} ELSE {})

\* what Bases hands to the view: no data yet, no note, a note without a
\* date, a note with a text value, notes with numbers
ViewData ==
    { NullData, [data |-> <<>>],
      [data |-> << [date |-> NoDate, raw |-> NumberValue(1)] >>],
      [data |-> << [date |-> "2024-01-01", raw |-> StringValue("abc")] >>],
      [data |-> << [date |-> "2024-01-01", raw |-> NumberValue(1)] >>],
      [data |-> << [date |-> "2024-01-01", raw |-> NumberValue(1)],
                   [date |-> "2024-01-02", raw |-> NumberValue(2)] >>] }

ViewConfigs ==
    { [valueProperty |-> "", minValue |-> Null, maxValue |-> Null],
      [valueProperty |-> "value", minValue |-> Null, maxValue |-> Null] }

NoEffects == [effects |-> {}]

InitInteractions ==
    /\ queryData = NullData
    /\ config \in ViewConfigs
    /\ processedData = NullData
    /\ shown = "unrendered"
    /\ cells = NoCells
    /\ input = <<>>
    /\ output = [heatmaps |-> 0, attached |-> 0, listeners |-> {},
                 cleanupInteractions |-> 0]
    /\ call = NullData
    /\ result = NoEffects

\* Bases changes the data or the options and calls onDataUpdated -> render
OnDataUpdatedAgain ==
    /\ \E data \in ViewData, viewConfig \in ViewConfigs :
         LET view == EmptyContainer(CleanupInteractions(output))
         IN  /\ queryData' = data
             /\ config' = viewConfig
             /\ IF viewConfig.valueProperty = ""
                THEN /\ shown' = "Configure value property"
                     /\ output' = view
                     /\ UNCHANGED <<processedData, cells>>
                ELSE IF data = NullData
                THEN /\ shown' = ""
                     /\ output' = view
                     /\ UNCHANGED <<processedData, cells>>
                ELSE IF Len(data.data) = 0
                THEN /\ shown' = "No data to display"
                     /\ output' = view
                     /\ UNCHANGED <<processedData, cells>>
                ELSE IF DetectValueType(data.data) = "unsupported"
                THEN /\ shown' = "Unsupported property type"
                     /\ output' = view
                     /\ UNCHANGED <<processedData, cells>>
                ELSE LET pd == ProcessData(data.data)
                         pd2 == [pd EXCEPT !.stats = OverrideStats(pd.stats, viewConfig)]
                     IN  /\ processedData' = pd2
                         /\ IF Cardinality(DOMAIN pd2.entries) = 0
                            THEN /\ shown' = "No dated notes found"
                                 /\ output' = view
                                 /\ cells' = cells
                            ELSE /\ view.heatmaps < MaxHeatmaps
                                 /\ shown' = "heatmap"
                                 /\ output' = AppendHeatmap(view)
                                 /\ cells' = RenderCells(pd2)
    /\ call' = [op |-> "onDataUpdated"]
    /\ result' = NoEffects
    /\ UNCHANGED input

\* an event of one of the three types reaches a heatmap element the view has
\* built, in the container or not: the listeners still registered on it run
DispatchEvent ==
    /\ \E el \in 1 .. output.heatmaps, type \in EventTypes,
          target \in {"cell with note", "cell without note", "none"},
          key \in {"Enter", "ArrowUp"} :
         /\ type # "keydown" => key = "Enter"
         /\ call' = [op |-> "dispatchEvent", el |-> el, type |-> type,
                     target |-> target, key |-> key]
         /\ result' = [effects |->
                        {[by |-> l.el, effect |-> e] :
                            l \in {x \in output.listeners : x.el = el /\ x.type = type},
                            e \in Handler(type, target, key)}]
    /\ UNCHANGED <<queryData, config, processedData, shown, cells, input, output>>

NextInteractions == OnDataUpdatedAgain \/ DispatchEvent

SpecInteractions == InitInteractions /\ [][NextInteractions]_vars

\* C25: across any sequence of onDataUpdated calls every render runs the
\* cleanup of the previous setupInteractions first, so that the listeners
\* registered at any time are at most the three of the heatmap in the
\* container, and a handler whose cleanup has run never opens a note, sets a
\* tooltip or moves the focus again.
C25_OneListenerSet ==
    /\ \A l \in output.listeners :
          l.el = output.cleanupInteractions /\ l.el = output.attached
    /\ Cardinality(output.listeners) \in {0, 3}
    /\ output.cleanupInteractions # 0 <=> shown = "heatmap"
    /\ \A e \in result.effects : e.by = output.cleanupInteractions

\* the second heatmap is in the container and a click on a cell of the first,
\* whose cleanup has run, opens nothing
C25_Witness ==
    /\ output.heatmaps = 2
    /\ output.cleanupInteractions = 2
    /\ call = [op |-> "dispatchEvent", el |-> 1, type |-> "click",
               target |-> "cell with note", key |-> "Enter"]
    /\ result.effects = {}

\* ---------------------------------------------------------------------
\* The HeatmapView that requests the initial query (src/unnamed/part_004).
\* The variable input holds the controller (which of runQuery and notifyView
\* it offers), output the view with its fields isViewVisible and
\* initialQueryRequested added, and call the handler that ran last with the
\* requestInitialQuery calls it made, in order.
\* ---------------------------------------------------------------------
\* part_004 225-252: the view afterwards, the value returned, and whether
\* runQuery or notifyView ran to its end; throws says what the controller's
\* method does when it is called
RequestInitialQuery(view, controller, throws) ==
    IF view.initialQueryRequested \/ ~view.isViewVisible
    THEN [view |-> view, returned |-> FALSE, issued |-> FALSE]
    ELSE IF controller.runQuery \/ controller.notifyView
    THEN IF throws
         THEN [view |-> [view EXCEPT !.initialQueryRequested = FALSE],
               returned |-> TRUE, issued |-> FALSE]
         ELSE [view |-> [view EXCEPT !.initialQueryRequested = TRUE],
               returned |-> TRUE, issued |-> TRUE]
    ELSE [view |-> [view EXCEPT !.initialQueryRequested = FALSE],
          returned |-> FALSE, issued |-> FALSE]

Outcome(request) == [returned |-> request.returned, issued |-> request.issued]

Controllers == [runQuery : BOOLEAN, notifyView : BOOLEAN]

\* after the constructor (part_004 59-77): its requestInitialQuery returns at
\* once, isViewVisible being false
InitQuery ==
    /\ input \in Controllers
    /\ output = [heatmaps |-> 0, attached |-> 0, listeners |-> {},
                 cleanupInteractions |-> 0, isViewVisible |-> FALSE,
                 initialQueryRequested |-> FALSE]
    /\ queryData = NullData
    /\ config \in ViewConfigs
    /\ processedData = NullData
    /\ shown = "unrendered"
    /\ cells = NoCells
    /\ call = NullData
    /\ result = NoEffects

\* part_004 40-47
Onload ==
    /\ \E throws \in BOOLEAN :
         LET visible == [output EXCEPT !.isViewVisible = TRUE]
             request == RequestInitialQuery(visible, input, throws)
         IN  IF processedData = NullData
             THEN /\ output' = request.view
                  /\ call' = [op |-> "onload", requests |-> << Outcome(request) >>]
             ELSE /\ output' = visible
                  /\ call' = [op |-> "onload", requests |-> << >>]
    /\ UNCHANGED <<queryData, config, processedData, shown, cells, input, result>>

\* part_004 49-53
Onunload ==
    /\ output' = [output EXCEPT !.isViewVisible = FALSE]
    /\ call' = [op |-> "onunload", requests |-> << >>]
    /\ UNCHANGED <<queryData, config, processedData, shown, cells, input, result>>

\* part_004 100-223: Bases changes the data or the options and calls
\* onDataUpdated, which requests the query if none was requested and renders
\* (the ellipsis of the text 'Loading data...' is written as three dots)
OnDataUpdatedQuery ==
    /\ \E data \in ViewData, viewConfig \in ViewConfigs, throws1 \in BOOLEAN,
          throws2 \in BOOLEAN :
         LET first == RequestInitialQuery(output, input, throws1)
             before == IF output.initialQueryRequested THEN << >>
                       ELSE << Outcome(first) >>
             view == EmptyContainer(CleanupInteractions(
                        IF output.initialQueryRequested THEN output ELSE first.view))
             entries == IF data = NullData THEN << >> ELSE data.data
             second == RequestInitialQuery(view, input, throws2)
         IN  /\ queryData' = data
             /\ config' = viewConfig
             /\ IF viewConfig.valueProperty = ""
                THEN /\ shown' = "Configure value property"
                     /\ output' = view
                     /\ call' = [op |-> "onDataUpdated", requests |-> before]
                     /\ UNCHANGED <<processedData, cells>>
                ELSE IF Len(entries) = 0
                THEN /\ shown' = IF second.returned THEN "Loading data..."
                                                    ELSE "No data to display"
                     /\ output' = second.view
                     /\ call' = [op |-> "onDataUpdated",
                                 requests |-> Append(before, Outcome(second))]
                     /\ UNCHANGED <<processedData, cells>>
                ELSE IF DetectValueType(entries) = "unsupported"
                THEN /\ shown' = "Unsupported property type"
                     /\ output' = view
                     /\ call' = [op |-> "onDataUpdated", requests |-> before]
                     /\ UNCHANGED <<processedData, cells>>
                ELSE LET pd == ProcessData(entries)
                     IN  /\ processedData' = pd
                         /\ call' = [op |-> "onDataUpdated", requests |-> before]
                         /\ IF Cardinality(DOMAIN pd.entries) = 0
                            THEN /\ shown' = "No dated notes found"
                                 /\ output' = view
                                 /\ cells' = cells
                            ELSE /\ view.heatmaps < MaxHeatmaps
                                 /\ shown' = "heatmap"
                                 /\ output' = AppendHeatmap(view)
                                 /\ cells' = RenderCells(pd)
    /\ UNCHANGED <<input, result>>

NextQuery == Onload \/ Onunload \/ OnDataUpdatedQuery

SpecQuery == InitQuery /\ [][NextQuery]_vars

\* C30: requestInitialQuery returns true exactly when that call issued a
\* query, runQuery or notifyView having run without throwing, and false when
\* a query was requested before, when the view is not visible, when the
\* controller offers no method and when the request threw; so a render of
\* zero records shows 'Loading data...' only when that render issued a query.
C30_TrueIffIssued ==
    call # NullData =>
        /\ \A i \in 1 .. Len(call.requests) :
              call.requests[i].returned <=> call.requests[i].issued
        /\ shown = "Loading data..." =>
              (call.op = "onDataUpdated" =>
                  /\ Len(call.requests) > 0
                  /\ call.requests[Len(call.requests)].issued)

====
